---- MODULE Spec2Model ----
(***************************************************************************)
(* ReadoutApplication::generate_modules (src/src/ReadoutApplication.cpp).  *)
(*                                                                         *)
(* One call of generate_modules is modelled as a state machine.  The       *)
(* application object (`app`) is the read-only input; the local variables  *)
(* of the function and the configuration database (`confdb`, the objects   *)
(* created so far, in creation order) are the state.                       *)
(*                                                                         *)
(* Pointers are names: nullptr, or the name of an object whose attributes  *)
(* are looked up in a table (template_for, QueueDescriptor, ...).  An      *)
(* object id "prefix" + to_string(n) is the pair <<prefix, n>>; both       *)
(* std::to_string and the zero padded 8 digit hex rendering are injective  *)
(* on the 32 bit ids, which is all the wiring depends on.                  *)
(***************************************************************************)
EXTENDS Integers, Sequences, FiniteSets

VARIABLES app, pc, result, dlhClass, dlhInputQDesc, tpInputQDesc,
          dlhNetDesc, tpNetDesc, tpQueueObj, confdb, modules,
          rnum, port_offset, roGroup, res, outputQueues

vars == <<app, pc, result, dlhClass, dlhInputQDesc, tpInputQDesc,
          dlhNetDesc, tpNetDesc, tpQueueObj, confdb, modules,
          rnum, port_offset, roGroup, res, outputQueues>>

\* Bounds of the model.
MaxRules == 2
MaxGroups == 2
MaxStreams == 3

nullptr == "nullptr"

\* A default constructed oksdbinterfaces::ConfigObject (refers to nothing).
NullObj == <<"nullptr", 0>>

SeqsUpTo(S, n) == UNION {[1..k -> S] : k \in 0..n}

----------------------------------------------------------------------------
(* The schema objects the application refers to.                           *)

\* LinkHandlerConf objects and the class each is a template for.
LinkHandlerConfs == {"lhconf-dlh", "lhconf-fd", "lhconf-tph"}

template_for(conf) ==
    CASE conf = "lhconf-dlh" -> "DLH"
      [] conf = "lhconf-fd"  -> "FDDataLinkHandler"
      [] conf = "lhconf-tph" -> "TPHandler"
      [] conf = "rdrconf"    -> "FDFakeCardReader"

\* Classes a connection rule may name.
RuleClasses == {"DLH", "FDDataLinkHandler", "TPHandler", "FakeDataProd"}

QueueDescriptors == {"qdesc-a", "qdesc-b"}

QueueDescriptor(d) ==
    CASE d = "qdesc-a" -> [data_type |-> "WIBEthFrame", queue_type |-> "kFollySPSCQueue", capacity |-> 100000]
      [] d = "qdesc-b" -> [data_type |-> "TriggerPrimitive", queue_type |-> "kFollyMPMCQueue", capacity |-> 10]

NetworkConnectionDescriptor(d) ==
    CASE d = "ndesc-0"     -> [uid_base |-> "data_requests_for_", data_type |-> "DataRequest", connection_type |-> "kSendRecv", uri |-> "tcp://localhost", port |-> 0]
      [] d = "ndesc-14000" -> [uid_base |-> "tp_conn_", data_type |-> "DataRequest", connection_type |-> "kSendRecv", uri |-> "tcp://localhost", port |-> 14000]
      [] d = "ndesc-65535" -> [uid_base |-> "dr_", data_type |-> "DataRequest", connection_type |-> "kSendRecv", uri |-> "tcp://localhost", port |-> 65535]
      [] d = "ndesc-tp"    -> [uid_base |-> "tpreq_", data_type |-> "DataRequest", connection_type |-> "kPubSub", uri |-> "tcp://localhost", port |-> 15000]

\* What a read through a null pointer may yield when it does not trap.
GarbageClasses == RuleClasses \cup {"<garbage>"}
GarbageQueueDescriptors ==
    {[data_type |-> "<garbage>", queue_type |-> "<garbage>", capacity |-> 57005]}
GarbageNetworkDescriptors ==
    {[uid_base |-> "<garbage>", data_type |-> "<garbage>", connection_type |-> "<garbage>", uri |-> "<garbage>", port |-> p] : p \in {0, 48879}}

----------------------------------------------------------------------------
(* The applications generate_modules is run on.                            *)

App(lh, rdr, tp, tpsrc, qrules, nrules, groups) ==
    [link_handler |-> lh, data_reader |-> rdr, tp_handler |-> tp,
     tp_src_id |-> tpsrc, queue_rules |-> qrules, network_rules |-> nrules,
     contains |-> groups]

\* Source ids are unique within the application.
SrcId(g, s) == 10 * g + s

Stream(g, s, off) ==
    [class |-> "DROStreamConf", disabled |-> off, src_id |-> SrcId(g, s)]

\* A readout group whose k-th stream is disabled iff offs[k].
Group(g, off, offs) ==
    [class |-> "ReadoutGroup", disabled |-> off,
     contains |-> [s \in 1..Len(offs) |-> Stream(g, s, offs[s])]]

\* The shape of a group: an enabled group with any streams, or a disabled
\* group (whose streams the code never looks at) with one enabled stream.
GroupShapes ==
    [disabled : {FALSE}, streams : SeqsUpTo(BOOLEAN, MaxStreams)]
    \cup {[disabled |-> TRUE, streams |-> <<FALSE>>]}

RECURSIVE NStreams(_)
NStreams(shapes) ==
    IF shapes = <<>> THEN 0 ELSE Len(Head(shapes).streams) + NStreams(Tail(shapes))

Groups(shapes) ==
    [g \in 1..Len(shapes) |-> Group(g, shapes[g].disabled, shapes[g].streams)]

\* Every readout of at most MaxGroups groups and MaxStreams streams in all.
AllGroups ==
    {Groups(sh) : sh \in {x \in SeqsUpTo(GroupShapes, MaxGroups) : NStreams(x) <= MaxStreams}}

\* One disabled group, then a group with an enabled and a disabled stream.
FewGroups ==
    {<<>>,
     <<Group(1, TRUE, <<FALSE>>), Group(2, FALSE, <<FALSE, TRUE>>)>>}

\* Resources of the wrong class: a group that is no ReadoutGroup (enabled
\* or disabled), and a group holding something that is no DROStreamConf.
MismatchedGroups ==
    {<<[class |-> "Segment", disabled |-> d, contains |-> <<>>],
       Group(2, FALSE, <<FALSE>>)>> : d \in BOOLEAN}
    \cup
    {<<[class |-> "ReadoutGroup", disabled |-> FALSE,
        contains |-> <<Stream(1, 1, FALSE),
                       [class |-> "ReadoutGroup", disabled |-> d, src_id |-> 0]>>]>>
        : d \in BOOLEAN}

QueueRule(c, d) == [destination_class |-> c, descriptor |-> d]
NetworkRule(c, d) == [endpoint_class |-> c, descriptor |-> d]

AllQueueRules ==
    SeqsUpTo({QueueRule(c, d) : c \in RuleClasses, d \in QueueDescriptors}, MaxRules)
AllNetworkRules ==
    SeqsUpTo({NetworkRule(c, d) : c \in RuleClasses, d \in {"ndesc-14000", "ndesc-tp"}}, MaxRules)

FewQueueRules ==
    {<<>>,
     <<QueueRule("FDDataLinkHandler", "qdesc-a")>>,
     <<QueueRule("TPHandler", "qdesc-b")>>,
     <<QueueRule("DLH", "qdesc-a"), QueueRule("TPHandler", "qdesc-b")>>}
FewNetworkRules ==
    {<<>>,
     <<NetworkRule("DLH", "ndesc-0")>>,
     <<NetworkRule("TPHandler", "ndesc-tp")>>,
     <<NetworkRule("TPHandler", "ndesc-tp"), NetworkRule("FDDataLinkHandler", "ndesc-14000")>>}

FewNetworkRules_Good ==
    <<NetworkRule("DLH", "ndesc-14000"), NetworkRule("TPHandler", "ndesc-tp")>>

\* Rules that resolve every descriptor, for each base port.
GoodQueueRules == <<QueueRule("DLH", "qdesc-a"), QueueRule("TPHandler", "qdesc-b")>>
GoodNetworkRules ==
    {<<NetworkRule("DLH", d), NetworkRule("TPHandler", "ndesc-tp")>>
        : d \in {"ndesc-0", "ndesc-14000", "ndesc-65535"}}

\* Every rule list up to MaxRules, on a fixed readout.
AppsRules ==
    {App(lh, "rdrconf", "tphconf", 7, r[1], r[2], <<Group(1, FALSE, <<FALSE>>)>>) :
        lh \in LinkHandlerConfs,
        r \in (AllQueueRules \X {FewNetworkRules_Good})
              \cup ({GoodQueueRules} \X AllNetworkRules)}

\* Every readout within the bounds, with every descriptor resolved or a
\* link handler one missing.
AppsTopology ==
    {App("lhconf-fd", "rdrconf", tp, 7, GoodQueueRules, nr, gs) :
        tp \in {nullptr, "tphconf"},
        nr \in {x \in GoodNetworkRules : x[1].descriptor # "ndesc-0"},
        gs \in AllGroups}
    \cup
    {App("lhconf-fd", "rdrconf", nullptr, 0, r[1], r[2], gs) :
        r \in {<<GoodQueueRules, <<NetworkRule("DLH", "ndesc-0")>> >>,
               << <<>>, <<NetworkRule("DLH", "ndesc-14000")>> >>,
               <<GoodQueueRules, <<>> >>},
        gs \in AllGroups}

\* Every combination of present and absent configuration objects.
AppsConfs ==
    {App(lh, rdr, tp[1], tp[2], qr, nr, gs) :
        lh \in LinkHandlerConfs \cup {nullptr}, rdr \in {nullptr, "rdrconf"},
        tp \in {<<nullptr, 0>>, <<"tphconf", 0>>, <<"tphconf", 7>>},
        qr \in FewQueueRules, nr \in FewNetworkRules, gs \in FewGroups}

AppsMismatched ==
    {App("lhconf-fd", "rdrconf", nullptr, 0, GoodQueueRules, nr, gs) :
        nr \in GoodNetworkRules, gs \in MismatchedGroups}

Apps == AppsRules \cup AppsTopology \cup AppsConfs \cup AppsMismatched

----------------------------------------------------------------------------
(* The configuration database.                                             *)

\* confdb->create(dbfile, class, uid, obj): a new object, nothing set.
create(class, uid) ==
    [class |-> class, uid |-> uid, source_id |-> 0,
     data_type |-> "", queue_type |-> "", capacity |-> 0,
     connection_type |-> "", uri |-> "", port |-> 0,
     handler_configuration |-> nullptr, configuration |-> nullptr,
     inputs |-> <<>>, outputs |-> <<>>]

\* The three objects behind the TP handler (lines 108-127), in creation order.
TPHandlerObjects(tpsrc, conf, qd, nd) ==
    LET tpQueueUid == <<"inputToTPH-", tpsrc>>
        tpNetUid   == <<"ReqToTPH-", tpsrc>>
        tpUid      == <<"tphandler-", tpsrc>>
    IN  << [create("Queue", tpQueueUid) EXCEPT
               !.data_type = qd.data_type, !.queue_type = qd.queue_type,
               !.capacity = qd.capacity],
           [create("NetworkConnection", tpNetUid) EXCEPT
               !.data_type = nd.data_type, !.connection_type = nd.connection_type,
               !.uri = nd.uri, !.port = nd.port],
           [create("TPHandler", tpUid) EXCEPT
               !.source_id = tpsrc, !.handler_configuration = conf,
               !.inputs = <<tpQueueUid, tpNetUid>>] >>

\* Faulty variant of TPHandlerBadConf: the source id is not checked.
TPHandlerBadConfNoSrc(netd, qd, tpsrc) ==
    IF netd = nullptr THEN "No tpHandler network descriptor given"
    ELSE IF qd = nullptr THEN "No tpHandler input queue descriptor given"
    ELSE ""

\* The exception the TP handler checks throw (lines 98-107), "" when none.
TPHandlerBadConf(netd, qd, tpsrc) ==
    IF netd = nullptr THEN "No tpHandler network descriptor given"
    ELSE IF qd = nullptr THEN "No tpHandler input queue descriptor given"
    ELSE IF tpsrc = 0 THEN "No TPHandler src_id given"
    ELSE ""

\* uint16_t port = ...; port = port ? port+port_offset : port;  (lines 189-190)
Port(base, offset) == IF base # 0 THEN (base + offset) % 65536 ELSE base

\* Faulty variant of DLHOutputs: the outputs are never set.
DLHOutputsNone(tpHandlerConf, tpq) == <<>>

\* dlhObj.set_objs("outputs", {&tpQueueObj}) under if (tpHandlerConf).
DLHOutputs(tpHandlerConf, tpq) == IF tpHandlerConf # nullptr THEN <<tpq>> ELSE <<>>

\* Faulty variant of DLHInputs: the network connection is left out.
DLHInputsQueueOnly(queueUid, netUid) == <<queueUid>>

\* dlhObj.set_objs("inputs", inputObjs)  (lines 194-198)
DLHInputs(queueUid, netUid) == <<queueUid, netUid>>

\* The link handler of one stream as create() and the first setters leave
\* it (lines 164-172); `upto` is how far the code got: 1 after source_id,
\* 2 after handler_configuration and outputs.
DLHObject(cls, id, conf, tpconf, tpq, upto) ==
    LET o == [create(cls, <<"DLH-", id>>) EXCEPT !.source_id = id]
    IN  IF upto = 1 THEN o
        ELSE [o EXCEPT !.handler_configuration = conf,
                       !.outputs = DLHOutputs(tpconf, tpq)]

\* The input queue of one stream (lines 173-178); bare when the descriptor
\* was never read.
QueueObject(id, qd, filled) ==
    LET o == create("Queue", <<"inputToDLH-", id>>)
    IN  IF filled
        THEN [o EXCEPT !.data_type = qd.data_type, !.queue_type = qd.queue_type,
                       !.capacity = qd.capacity]
        ELSE o

\* The request connection of one stream (lines 180-191).
NetObject(id, nd, offset) ==
    [create("NetworkConnection", <<nd.uid_base, id>>) EXCEPT
        !.data_type = nd.data_type, !.connection_type = nd.connection_type,
        !.uri = nd.uri, !.port = Port(nd.port, offset)]

\* The three objects of one enabled stream (lines 163-198), in creation order.
DLHObjects(cls, id, conf, tpconf, tpq, qd, nd, offset) ==
    << [DLHObject(cls, id, conf, tpconf, tpq, 2) EXCEPT
           !.inputs = DLHInputs(<<"inputToDLH-", id>>, <<nd.uid_base, id>>)],
       QueueObject(id, qd, TRUE),
       NetObject(id, nd, offset) >>

\* What the database holds of a stream when the code traps on the `at`-th
\* pointer it reads: 1 dlhConf (line 169), 2 dlhInputQDesc (line 176),
\* 3 dlhNetDesc (line 182).
DLHObjectsUpTo(cls, id, conf, tpconf, tpq, qd, at) ==
    IF at = 1 THEN << DLHObject(cls, id, conf, tpconf, tpq, 1) >>
    ELSE IF at = 2 THEN << DLHObject(cls, id, conf, tpconf, tpq, 2),
                           QueueObject(id, qd, FALSE) >>
    ELSE << DLHObject(cls, id, conf, tpconf, tpq, 2), QueueObject(id, qd, TRUE) >>

\* Faulty variant of ReaderObject: the queues are set as `inputs`.
ReaderObjectInputs(cls, n, queues, conf) ==
    [create(cls, <<"datareader-app-", n>>) EXCEPT
        !.inputs = queues, !.configuration = conf]

\* The DataReader of one group (lines 206-217).
ReaderObject(cls, n, queues, conf) ==
    [create(cls, <<"datareader-app-", n>>) EXCEPT
        !.outputs = queues, !.configuration = conf]

\* Faulty variant of push_back: the element goes to the front.
push_front(v, x) == <<x>> \o v

\* modules.push_back(...), outputQueues.push_back(...)
push_back(v, x) == Append(v, x)

\* Faulty variant of TPModules: the two connections are returned too.
TPModulesAll(objs) == [i \in 1..3 |-> objs[i].uid]

\* What the TP handler block adds to the returned modules (line 130):
\* the TPHandler, not its two connections.
TPModules(objs) == <<objs[3].uid>>

----------------------------------------------------------------------------
(* Rule resolution (lines 66-90).                                          *)

\* Faulty variant of QueueRuleStep: the first matching rule wins.
QueueRuleStepFirstWins(rule, cls, acc) ==
    IF rule.destination_class = "DLH" \/ rule.destination_class = cls
    THEN (IF acc.dlh = nullptr THEN [acc EXCEPT !.dlh = rule.descriptor] ELSE acc)
    ELSE IF rule.destination_class = "TPHandler"
    THEN (IF acc.tp = nullptr THEN [acc EXCEPT !.tp = rule.descriptor] ELSE acc)
    ELSE acc

\* One iteration of the queue rule loop; acc holds the two descriptors.
QueueRuleStep(rule, cls, acc) ==
    IF rule.destination_class = "DLH" \/ rule.destination_class = cls
    THEN [acc EXCEPT !.dlh = rule.descriptor]
    ELSE IF rule.destination_class = "TPHandler"
    THEN [acc EXCEPT !.tp = rule.descriptor]
    ELSE acc

\* One iteration of the network rule loop.
NetworkRuleStep(rule, cls, acc) ==
    IF rule.endpoint_class = "DLH" \/ rule.endpoint_class = cls
    THEN [acc EXCEPT !.dlh = rule.descriptor]
    ELSE IF rule.endpoint_class = "TPHandler"
    THEN [acc EXCEPT !.tp = rule.descriptor]
    ELSE acc

RECURSIVE ScanQueueRules(_, _, _)
ScanQueueRules(rules, cls, acc) ==
    IF rules = <<>> THEN acc
    ELSE ScanQueueRules(Tail(rules), cls, QueueRuleStep(Head(rules), cls, acc))

RECURSIVE ScanNetworkRules(_, _, _)
ScanNetworkRules(rules, cls, acc) ==
    IF rules = <<>> THEN acc
    ELSE ScanNetworkRules(Tail(rules), cls, NetworkRuleStep(Head(rules), cls, acc))

----------------------------------------------------------------------------
(* The call.                                                               *)

Init ==
    /\ app \in Apps
    /\ pc = "link_handler"
    /\ result = "running"
    /\ dlhClass = ""
    /\ dlhInputQDesc = nullptr /\ tpInputQDesc = nullptr
    /\ dlhNetDesc = nullptr /\ tpNetDesc = nullptr
    /\ tpQueueObj = NullObj
    /\ confdb = <<>>
    /\ modules = <<>>
    /\ rnum = 0 /\ port_offset = 0
    /\ roGroup = 1 /\ res = 1
    /\ outputQueues = <<>>

descs == <<dlhInputQDesc, tpInputQDesc, dlhNetDesc, tpNetDesc>>
loop == <<rnum, port_offset, roGroup, res, outputQueues>>

\* An exception or a trap ends the call.
Ends(how) == pc' = "done" /\ result' = how

\* Lines 63-64, dlhConf not null.
GetLinkHandler ==
    /\ pc = "link_handler" /\ app.link_handler # nullptr
    /\ dlhClass' = template_for(app.link_handler)
    /\ pc' = "queue_rules"
    /\ UNCHANGED <<app, result, descs, tpQueueObj, confdb, modules, loop>>

\* Line 64 with dlhConf null: the read through the null pointer traps.
GetLinkHandlerNullDeref ==
    /\ pc = "link_handler" /\ app.link_handler = nullptr
    /\ Ends("SIGSEGV")
    /\ UNCHANGED <<app, dlhClass, descs, tpQueueObj, confdb, modules, loop>>

\* Line 64 with dlhConf null: the read yields whatever lies there.
GetLinkHandlerGarbage ==
    /\ pc = "link_handler" /\ app.link_handler = nullptr
    /\ dlhClass' \in GarbageClasses
    /\ pc' = "queue_rules"
    /\ UNCHANGED <<app, result, descs, tpQueueObj, confdb, modules, loop>>

\* Lines 67-77.
ProcessQueueRules ==
    /\ pc = "queue_rules"
    /\ LET r == ScanQueueRules(app.queue_rules, dlhClass, [dlh |-> nullptr, tp |-> nullptr])
       IN  dlhInputQDesc' = r.dlh /\ tpInputQDesc' = r.tp
    /\ pc' = "network_rules"
    /\ UNCHANGED <<app, result, dlhClass, dlhNetDesc, tpNetDesc, tpQueueObj,
                   confdb, modules, loop>>

\* Lines 80-90.
ProcessNetworkRules ==
    /\ pc = "network_rules"
    /\ LET r == ScanNetworkRules(app.network_rules, dlhClass, [dlh |-> nullptr, tp |-> nullptr])
       IN  dlhNetDesc' = r.dlh /\ tpNetDesc' = r.tp
    /\ pc' = "tp_handler"
    /\ UNCHANGED <<app, result, dlhClass, dlhInputQDesc, tpInputQDesc, tpQueueObj,
                   confdb, modules, loop>>

\* Lines 96-97 with no TP handler configured.
NoTPHandler ==
    /\ pc = "tp_handler" /\ app.tp_handler = nullptr
    /\ pc' = "data_reader"
    /\ UNCHANGED <<app, result, dlhClass, descs, tpQueueObj, confdb, modules, loop>>

\* Lines 98-107: one of the three checks throws BadConf.
TPHandlerThrows ==
    /\ pc = "tp_handler" /\ app.tp_handler # nullptr
    /\ TPHandlerBadConf(tpNetDesc, tpInputQDesc, app.tp_src_id) # ""
    /\ Ends(TPHandlerBadConf(tpNetDesc, tpInputQDesc, app.tp_src_id))
    /\ UNCHANGED <<app, dlhClass, descs, tpQueueObj, confdb, modules, loop>>

\* Lines 108-130.
CreateTPHandler ==
    /\ pc = "tp_handler" /\ app.tp_handler # nullptr
    /\ TPHandlerBadConf(tpNetDesc, tpInputQDesc, app.tp_src_id) = ""
    /\ LET objs == TPHandlerObjects(app.tp_src_id, app.tp_handler,
                                    QueueDescriptor(tpInputQDesc),
                                    NetworkConnectionDescriptor(tpNetDesc))
       IN  /\ confdb' = confdb \o objs
           /\ tpQueueObj' = objs[1].uid
           /\ modules' = modules \o TPModules(objs)
    /\ pc' = "data_reader"
    /\ UNCHANGED <<app, result, dlhClass, descs, loop>>

\* Lines 134-140, rdrConf not null.
GetDataReader ==
    /\ pc = "data_reader" /\ app.data_reader # nullptr
    /\ rnum' = 0 /\ port_offset' = 0
    /\ pc' = "groups"
    /\ UNCHANGED <<app, result, dlhClass, descs, tpQueueObj, confdb, modules,
                   roGroup, res, outputQueues>>

\* Lines 135-137.
NoDataReader ==
    /\ pc = "data_reader" /\ app.data_reader = nullptr
    /\ Ends("No DataReader configuration given")
    /\ UNCHANGED <<app, dlhClass, descs, tpQueueObj, confdb, modules, loop>>

AtGroup == pc = "groups" /\ roGroup <= Len(app.contains)
group == app.contains[roGroup]

\* Lines 145-148.
SkipDisabledGroup ==
    /\ AtGroup /\ group.disabled
    /\ roGroup' = roGroup + 1
    /\ UNCHANGED <<app, pc, result, dlhClass, descs, tpQueueObj, confdb, modules,
                   rnum, port_offset, res, outputQueues>>

\* Lines 149-152.
NotAReadoutGroup ==
    /\ AtGroup /\ ~group.disabled /\ group.class # "ReadoutGroup"
    /\ Ends("ReadoutApplication contains something other than ReadoutGroup")
    /\ UNCHANGED <<app, dlhClass, descs, tpQueueObj, confdb, modules, loop>>

\* Lines 149-154: an enabled group, its stream loop starts.
EnterGroup ==
    /\ AtGroup /\ ~group.disabled /\ group.class = "ReadoutGroup"
    /\ outputQueues' = <<>> /\ res' = 1
    /\ pc' = "streams"
    /\ UNCHANGED <<app, result, dlhClass, descs, tpQueueObj, confdb, modules,
                   rnum, port_offset, roGroup>>

AtStream == pc = "streams" /\ res <= Len(group.contains)
stream == group.contains[res]

\* Lines 155-158.
NotADROStreamConf ==
    /\ AtStream /\ stream.class # "DROStreamConf"
    /\ Ends("ReadoutGroup contains something other than DROStreamConf")
    /\ UNCHANGED <<app, dlhClass, descs, tpQueueObj, confdb, modules, loop>>

\* Lines 159-162.
SkipDisabledStream ==
    /\ AtStream /\ stream.class = "DROStreamConf" /\ stream.disabled
    /\ res' = res + 1
    /\ UNCHANGED <<app, pc, result, dlhClass, descs, tpQueueObj, confdb, modules,
                   rnum, port_offset, roGroup, outputQueues>>

AtEnabledStream == AtStream /\ stream.class = "DROStreamConf" /\ ~stream.disabled

\* The pointers lines 163-198 read through that are null, in reading order.
NullPointers ==
    {n \in 1..3 : \/ n = 1 /\ app.link_handler = nullptr
                  \/ n = 2 /\ dlhInputQDesc = nullptr
                  \/ n = 3 /\ dlhNetDesc = nullptr}

\* What a read through each pointer yields, null ones yielding garbage.
ConfRead == IF app.link_handler = nullptr THEN {"<garbage>"} ELSE {app.link_handler}
QDescRead ==
    IF dlhInputQDesc = nullptr THEN GarbageQueueDescriptors
    ELSE {QueueDescriptor(dlhInputQDesc)}
NetDescRead ==
    IF dlhNetDesc = nullptr THEN GarbageNetworkDescriptors
    ELSE {NetworkConnectionDescriptor(dlhNetDesc)}

\* The tail of the stream loop body once all three objects exist.
StreamDone(objs) ==
    /\ confdb' = confdb \o objs
    /\ port_offset' = port_offset + 1
    /\ outputQueues' = push_back(outputQueues, objs[2].uid)
    /\ modules' = push_back(modules, objs[1].uid)
    /\ res' = res + 1
    /\ UNCHANGED <<app, pc, result, dlhClass, descs, tpQueueObj, rnum, roGroup>>

\* Lines 163-203, no pointer null.
CreateDLH ==
    /\ AtEnabledStream /\ NullPointers = {}
    /\ StreamDone(DLHObjects(dlhClass, stream.src_id, app.link_handler,
                             app.tp_handler, tpQueueObj,
                             QueueDescriptor(dlhInputQDesc),
                             NetworkConnectionDescriptor(dlhNetDesc),
                             port_offset))

\* Lines 163-203 with a null pointer among dlhConf, dlhInputQDesc and
\* dlhNetDesc: a read through one of them traps, the earlier ones having
\* yielded garbage.
CreateDLHNullDeref ==
    /\ AtEnabledStream
    /\ \E at \in NullPointers, conf \in ConfRead, qd \in QDescRead :
          confdb' = confdb \o DLHObjectsUpTo(dlhClass, stream.src_id, conf,
                                             app.tp_handler, tpQueueObj, qd, at)
    /\ Ends("SIGSEGV")
    /\ UNCHANGED <<app, dlhClass, descs, tpQueueObj, modules, loop>>

\* Lines 163-203 with a null pointer, no read trapping.
CreateDLHGarbage ==
    /\ AtEnabledStream /\ NullPointers # {}
    /\ \E conf \in ConfRead, qd \in QDescRead, nd \in NetDescRead :
          StreamDone(DLHObjects(dlhClass, stream.src_id, conf, app.tp_handler,
                                tpQueueObj, qd, nd, port_offset))

\* Lines 206-219: the stream loop is over, the group's DataReader.
CreateDataReader ==
    /\ pc = "streams" /\ res > Len(group.contains)
    /\ LET obj == ReaderObject(template_for(app.data_reader), rnum, outputQueues,
                               app.data_reader)
       IN  /\ confdb' = Append(confdb, obj)
           /\ modules' = push_back(modules, obj.uid)
    /\ rnum' = rnum + 1
    /\ roGroup' = roGroup + 1
    /\ pc' = "groups"
    /\ UNCHANGED <<app, result, dlhClass, descs, tpQueueObj, port_offset, res,
                   outputQueues>>

\* Line 222.
Return ==
    /\ pc = "groups" /\ roGroup > Len(app.contains)
    /\ Ends("returned")
    /\ UNCHANGED <<app, dlhClass, descs, tpQueueObj, confdb, modules, loop>>

Next ==
    \/ GetLinkHandler
    \/ GetLinkHandlerNullDeref
    \/ GetLinkHandlerGarbage
    \/ ProcessQueueRules
    \/ ProcessNetworkRules
    \/ NoTPHandler
    \/ TPHandlerThrows
    \/ CreateTPHandler
    \/ GetDataReader
    \/ NoDataReader
    \/ SkipDisabledGroup
    \/ NotAReadoutGroup
    \/ EnterGroup
    \/ NotADROStreamConf
    \/ SkipDisabledStream
    \/ CreateDLH
    \/ CreateDLHNullDeref
    \/ CreateDLHGarbage
    \/ CreateDataReader
    \/ Return

Spec == Init /\ [][Next]_vars

----------------------------------------------------------------------------
(* What the claims speak of.                                               *)

Returned == pc = "done" /\ result = "returned"
Resolved == pc \notin {"link_handler", "queue_rules", "network_rules"}

\* Every BadConf the code throws.
BadConf ==
    {"No tpHandler network descriptor given",
     "No tpHandler input queue descriptor given",
     "No TPHandler src_id given",
     "No DataReader configuration given",
     "ReadoutApplication contains something other than ReadoutGroup",
     "ReadoutGroup contains something other than DROStreamConf"}

IsHandler(o) == o.uid[1] = "DLH-"
IsReader(o) == o.uid[1] = "datareader-app-"
IsTPRecord(o) == o.uid[1] \in {"inputToTPH-", "ReqToTPH-", "tphandler-"}
IsStreamNet(o) == o.class = "NetworkConnection" /\ o.uid[1] # "ReqToTPH-"

Where(P(_)) == {i \in DOMAIN confdb : P(confdb[i])}

\* The source ids of the enabled streams of a stream list, in order.
RECURSIVE EnabledIds(_)
EnabledIds(streams) ==
    IF streams = <<>> THEN <<>>
    ELSE (IF Head(streams).disabled THEN <<>> ELSE <<Head(streams).src_id>>)
         \o EnabledIds(Tail(streams))

QueueUids(ids) == [i \in DOMAIN ids |-> <<"inputToDLH-", ids[i]>>]
HandlerUids(ids) == [i \in DOMAIN ids |-> <<"DLH-", ids[i]>>]

EnabledGroups == {g \in DOMAIN app.contains : ~app.contains[g].disabled}
\* The enabled groups that hold at least one stream.
NonEmptyGroups == {g \in EnabledGroups : app.contains[g].contains # <<>>}
\* The index the reader of enabled group g gets: the enabled groups before it.
ReaderIndex(g) == Cardinality({h \in EnabledGroups : h < g})

RECURSIVE SumLen(_)
SumLen(ss) == IF ss = <<>> THEN 0 ELSE Len(Head(ss)) + SumLen(Tail(ss))
\* N: the enabled streams of the enabled groups.
NEnabledStreams ==
    SumLen([g \in DOMAIN app.contains |->
               IF app.contains[g].disabled THEN <<>>
               ELSE EnabledIds(app.contains[g].contains)])

\* No read through a null pointer has happened.
NoNullRead ==
    /\ app.link_handler # nullptr
    /\ Where(IsHandler) = {} \/ (dlhInputQDesc # nullptr /\ dlhNetDesc # nullptr)

Last(I) == CHOOSE i \in I : \A j \in I : j <= i

----------------------------------------------------------------------------
\* C1: after a successful call every enabled stream of an enabled group has
\* exactly one link handler "DLH-<id>" (of the handler class), one Queue
\* "inputToDLH-<id>" and one NetworkConnection of its own, the handler's
\* inputs being exactly that Queue and that NetworkConnection; a disabled
\* stream and a stream of a disabled group have none of the three.
C1_StreamObjects ==
    Returned =>
      \A g \in DOMAIN app.contains : \A s \in DOMAIN app.contains[g].contains :
        LET st == app.contains[g].contains[s]
            H == {i \in DOMAIN confdb : confdb[i].uid = <<"DLH-", st.src_id>>}
            Q == {i \in DOMAIN confdb : confdb[i].uid = <<"inputToDLH-", st.src_id>>}
            N == {i \in DOMAIN confdb : IsStreamNet(confdb[i]) /\ confdb[i].uid[2] = st.src_id}
        IN  IF ~app.contains[g].disabled /\ ~st.disabled
            THEN /\ Cardinality(H) = 1 /\ Cardinality(Q) = 1 /\ Cardinality(N) = 1
                 /\ \A h \in H, q \in Q, n \in N :
                       /\ confdb[h].class = dlhClass
                       /\ confdb[q].class = "Queue"
                       /\ confdb[h].inputs = <<confdb[q].uid, confdb[n].uid>>
            ELSE H = {} /\ Q = {} /\ N = {}

\* A successful call over an enabled stream, a disabled stream of an enabled
\* group and a stream of a disabled group.
C1_Witness ==
    /\ Returned
    /\ \E g \in EnabledGroups : \E s, t \in DOMAIN app.contains[g].contains :
          ~app.contains[g].contains[s].disabled /\ app.contains[g].contains[t].disabled
    /\ \E g \in DOMAIN app.contains :
          app.contains[g].disabled /\ app.contains[g].contains # <<>>

\* The readers the database holds are those of the enabled groups, one each,
\* `field` of the reader of a group being the queues of its enabled streams
\* in stream order, and its configuration the reader template's object.
ReadersHold(field) ==
    /\ Cardinality(Where(IsReader)) = Cardinality(EnabledGroups)
    /\ \A g \in EnabledGroups :
          LET R == {i \in DOMAIN confdb : confdb[i].uid = <<"datareader-app-", ReaderIndex(g)>>}
          IN  /\ Cardinality(R) = 1
              /\ \A r \in R :
                    /\ confdb[r].class = template_for(app.data_reader)
                    /\ confdb[r][field] = QueueUids(EnabledIds(app.contains[g].contains))
                    /\ confdb[r].configuration = app.data_reader

\* C2 (as claimed): after a successful call every enabled group has exactly
\* one Reader whose `inputs` is the list of the Queues of its enabled
\* streams, in stream order, with the reader template's configuration; a
\* disabled group has none.
C2_ReaderInputs == (Returned /\ NoNullRead) => ReadersHold("inputs")

\* C2 (amended): the list of Queues is the Reader's `outputs`; its `inputs`
\* is never set.
C2_ReaderOutputs ==
    Returned => /\ ReadersHold("outputs")
                /\ \A r \in Where(IsReader) : confdb[r].inputs = <<>>

\* A successful call with a group of two enabled streams and a group whose
\* streams are all disabled.
C2_Witness ==
    /\ Returned
    /\ \E g \in EnabledGroups : Len(EnabledIds(app.contains[g].contains)) >= 2
    /\ \E g \in EnabledGroups :
          app.contains[g].contains # <<>> /\ EnabledIds(app.contains[g].contains) = <<>>

\* C3: with a TP handler configured, every stream handler in the database
\* was created after the TP handler's input Queue and after the TPHandler,
\* and every stream handler the call has finished has `outputs` = that
\* Queue alone; with none configured no stream handler has any `outputs`.
C3_TPHandlerFirst ==
    \A i \in Where(IsHandler) :
        IF app.tp_handler # nullptr
        THEN /\ \E q \in 1..(i - 1) :
                   /\ confdb[q].class = "Queue"
                   /\ confdb[q].uid = <<"inputToTPH-", app.tp_src_id>>
                   /\ (\E m \in DOMAIN modules : modules[m] = confdb[i].uid)
                         => confdb[i].outputs = <<confdb[q].uid>>
             /\ \E t \in 1..(i - 1) :
                   /\ confdb[t].class = "TPHandler"
                   /\ confdb[t].uid = <<"tphandler-", app.tp_src_id>>
        ELSE confdb[i].outputs = <<>>

\* Two finished stream handlers behind a TP handler.
C3_Witness ==
    /\ Returned /\ app.tp_handler # nullptr
    /\ Cardinality(Where(IsHandler)) >= 2

\* C3's other case: finished stream handlers and no TP handler.
C3_WitnessNoTP ==
    /\ Returned /\ app.tp_handler = nullptr
    /\ Cardinality(Where(IsHandler)) >= 2

\* The request connections of the streams, in creation order.
StreamNets == SelectSeq(confdb, IsStreamNet)

\* C4 (as claimed): the k-th stream connection created (k = 0, 1, ...) has
\* port base_port + k when the link handler network descriptor's base_port
\* is not zero, and port 0 when it is; so the non-zero ports go up by one
\* per created stream.
C4_PortsIncrease ==
    (Resolved /\ dlhNetDesc # nullptr) =>
        LET base == NetworkConnectionDescriptor(dlhNetDesc).port
        IN  /\ \A k \in DOMAIN StreamNets :
                  StreamNets[k].port = IF base # 0 THEN base + (k - 1) ELSE 0
            /\ \A k \in DOMAIN StreamNets :
                  (base # 0 /\ k > 1) => StreamNets[k].port = StreamNets[k - 1].port + 1

\* C5 (as claimed): a successful call returns N + G modules, G the enabled
\* non-empty groups, and N + G + 3 with a TP handler configured.
C5_ModuleCount ==
    (Returned /\ NoNullRead) =>
        Len(modules) = NEnabledStreams + Cardinality(NonEmptyGroups)
                       + (IF app.tp_handler # nullptr THEN 3 ELSE 0)

\* C5 (amended): a successful call returns N stream handlers, one reader
\* per enabled group (a group with no stream included) and, with a TP
\* handler configured, the TPHandler alone: N + G, or N + G + 1.
C5_ModuleCountAmended ==
    Returned =>
        /\ Len(modules) = NEnabledStreams + Cardinality(EnabledGroups)
                          + (IF app.tp_handler # nullptr THEN 1 ELSE 0)
        /\ Cardinality({m \in DOMAIN modules : modules[m][1] = "DLH-"}) = NEnabledStreams
        /\ Cardinality({m \in DOMAIN modules : modules[m][1] = "datareader-app-"})
              = Cardinality(EnabledGroups)
        /\ Cardinality({m \in DOMAIN modules : modules[m][1] = "tphandler-"})
              = (IF app.tp_handler # nullptr THEN 1 ELSE 0)

\* A successful call with a TP handler, an enabled group with no stream and
\* an enabled group with enabled streams.
C5_Witness ==
    /\ Returned /\ app.tp_handler # nullptr
    /\ EnabledGroups # NonEmptyGroups
    /\ NEnabledStreams >= 2

\* The modules of the groups from the n-th reader on: per enabled group the
\* handlers of its enabled streams, then its reader.
RECURSIVE GroupModules(_, _)
GroupModules(groups, n) ==
    IF groups = <<>> THEN <<>>
    ELSE IF Head(groups).disabled THEN GroupModules(Tail(groups), n)
    ELSE HandlerUids(EnabledIds(Head(groups).contains))
         \o << <<"datareader-app-", n>> >>
         \o GroupModules(Tail(groups), n + 1)

\* C6: a successful call returns the TP handler first (if configured), then
\* per enabled group in declaration order the handlers of its enabled
\* streams in stream order followed by the group's reader.
C6_ModuleOrder ==
    Returned =>
        modules = (IF app.tp_handler # nullptr
                   THEN << <<"tphandler-", app.tp_src_id>> >> ELSE <<>>)
                  \o GroupModules(app.contains, 0)

\* A successful call with a TP handler and two enabled groups that both
\* have an enabled stream.
C6_Witness ==
    /\ Returned /\ app.tp_handler # nullptr
    /\ Cardinality({g \in EnabledGroups : EnabledIds(app.contains[g].contains) # <<>>}) >= 2

\* The three errors of the TP handler block.
TPHandlerErrors ==
    {"No tpHandler network descriptor given",
     "No tpHandler input queue descriptor given",
     "No TPHandler src_id given"}

\* C7: with a TP handler configured and its network descriptor or its queue
\* descriptor unresolved or its source id 0, the call ends without
\* returning, with the error of the first failing check (or, the link
\* handler configuration being null, on the trap of line 64), and no TP
\* record is ever created; with no TP handler configured none of the three
\* errors is raised and no TP record is created.
C7_TPHandlerChecks ==
    /\ (app.tp_handler # nullptr /\ Resolved
        /\ (tpNetDesc = nullptr \/ tpInputQDesc = nullptr \/ app.tp_src_id = 0))
       => /\ Where(IsTPRecord) = {}
          /\ pc \in {"tp_handler", "done"}
          /\ pc = "done" =>
                /\ result # "returned"
                /\ \/ result = (IF tpNetDesc = nullptr
                                THEN "No tpHandler network descriptor given"
                                ELSE IF tpInputQDesc = nullptr
                                THEN "No tpHandler input queue descriptor given"
                                ELSE "No TPHandler src_id given")
                   \/ app.link_handler = nullptr /\ result = "SIGSEGV"
    /\ app.tp_handler = nullptr
       => Where(IsTPRecord) = {} /\ result \notin TPHandlerErrors

\* The call has ended on the source id check, both descriptors resolved.
C7_Witness ==
    /\ pc = "done" /\ result = "No TPHandler src_id given"
    /\ tpNetDesc # nullptr /\ tpInputQDesc # nullptr

\* C8 (as claimed): processing an enabled stream with the link handler
\* queue descriptor or network descriptor unset ends the call with a
\* BadConf error.
C8_MissingDescriptorThrows ==
    [][(/\ AtEnabledStream
        /\ app.link_handler # nullptr
        /\ (dlhInputQDesc = nullptr \/ dlhNetDesc = nullptr))
       => (pc' = "done" /\ result' \in BadConf)]_vars

\* C9 (as claimed): with the link handler configuration or the data reader
\* configuration absent the call ends with a missing configuration error.
C9_MissingConfiguration ==
    (pc = "done" /\ (app.link_handler = nullptr \/ app.data_reader = nullptr))
       => result \in {"No DataReader configuration given",
                      "No LinkHandler configuration given"}

\* The descriptor of the last rule whose class satisfies Role, the k-th
\* rule having class classes[k] and descriptor descriptors[k].
LastRule(classes, descriptors, Role(_)) ==
    LET I == {i \in DOMAIN classes : Role(classes[i])}
    IN  IF I = {} THEN nullptr ELSE descriptors[Last(I)]

QueueClasses == [i \in DOMAIN app.queue_rules |-> app.queue_rules[i].destination_class]
QueueDescs == [i \in DOMAIN app.queue_rules |-> app.queue_rules[i].descriptor]
NetClasses == [i \in DOMAIN app.network_rules |-> app.network_rules[i].endpoint_class]
NetDescs == [i \in DOMAIN app.network_rules |-> app.network_rules[i].descriptor]

LinkHandlerRole(c) == c = "DLH" \/ c = template_for(app.link_handler)
TPHandlerRole(c) == c = "TPHandler"
TPHandlerOnlyRole(c) == c = "TPHandler" /\ ~LinkHandlerRole(c)

\* Resolution has raised nothing and created nothing.
ResolutionIsPure == pc = "tp_handler" => (confdb = <<>> /\ result = "running")

\* C10 (as claimed): once the rules are resolved, each link handler
\* descriptor is that of the last rule of class "DLH" or of the handler
\* template's class, each TP handler descriptor that of the last rule of
\* class "TPHandler", unset when there is none; resolution raises no error
\* and creates no record.
C10_LastRuleWins ==
    (Resolved /\ app.link_handler # nullptr) =>
        /\ dlhInputQDesc = LastRule(QueueClasses, QueueDescs, LinkHandlerRole)
        /\ dlhNetDesc = LastRule(NetClasses, NetDescs, LinkHandlerRole)
        /\ tpInputQDesc = LastRule(QueueClasses, QueueDescs, TPHandlerRole)
        /\ tpNetDesc = LastRule(NetClasses, NetDescs, TPHandlerRole)
        /\ ResolutionIsPure

\* C10 (amended): the TP handler descriptor is that of the last rule of
\* class "TPHandler" that does not match the link handler role: when the
\* handler template's class is itself "TPHandler" those rules resolve the
\* link handler descriptor and the TP handler descriptor stays unset.
C10_LastRuleWinsAmended ==
    (Resolved /\ app.link_handler # nullptr) =>
        /\ dlhInputQDesc = LastRule(QueueClasses, QueueDescs, LinkHandlerRole)
        /\ dlhNetDesc = LastRule(NetClasses, NetDescs, LinkHandlerRole)
        /\ tpInputQDesc = LastRule(QueueClasses, QueueDescs, TPHandlerOnlyRole)
        /\ tpNetDesc = LastRule(NetClasses, NetDescs, TPHandlerOnlyRole)
        /\ ResolutionIsPure

\* Resolved rules where two queue rules with different descriptors match
\* the link handler role, one by "DLH" and one by the template's class, and
\* a network rule of class "TPHandler" resolved the TP handler descriptor.
C10_Witness ==
    /\ pc = "tp_handler" /\ app.link_handler # nullptr
    /\ \E i, j \in DOMAIN app.queue_rules :
          /\ i < j
          /\ QueueClasses[i] = "DLH" /\ QueueClasses[j] = template_for(app.link_handler)
          /\ QueueClasses[j] # "DLH"
          /\ QueueDescs[i] # QueueDescs[j]
    /\ tpNetDesc # nullptr

====
